---- MODULE Spec2Model ----
(***************************************************************************)
(* Model of the SPI driver stack of renode_peripheral_testing:             *)
(*   - the transaction engine  Stm32Spi1Device  (src/src/stm32_spi.rs),    *)
(*     at the granularity of one memory-mapped register access per step;   *)
(*   - the command framing layer  MockSpiDriver  (src/src/mock_spi.rs);    *)
(*   - the SPI1 controller and the chip-select pin as the environment:     *)
(*     the status flags are set by the hardware, the byte it returns for   *)
(*     an exchange is any byte.                                            *)
(***************************************************************************)
EXTENDS Integers, Sequences, FiniteSets, TLC

\* ------------------------------------------------------------------ bounds
\* Bytes are 0..MaxVal instead of 0..255 (payload bytes, addresses, register
\* values and the bytes the hardware returns).
MaxVal == 2
\* Longest buffer of an operation and longest echo payload.
MaxLen == 2
\* Longest operation list handed to transaction() directly.
MaxOps == 2
\* Longest echo payload of the frame-size specification (the scratch frame
\* of echo takes 255 bytes of payload).
MaxWide == 258

Val == 0..MaxVal
\* Execution contexts: 1 is main(), 2 is a second context holding its own
\* handle (only the concurrent specification lets it run).
Ctx == {1, 2}

\* ------------------------------------------------------- program constants
Echo == 1
WriteReg == 2
ReadReg == 3
WIRE_LEN == 257
CR1_MSTR == 4
CR1_SPE == 64
CR1_SSM == 512
CR1_SSI == 256
CR1_BR_SLOWEST == 56
CR2_FRXTH == 64
\* The filler transmitted by Operation::Read.
DummyTx == 0

VARIABLES
    \* --- hardware (memory-mapped registers and the CS pin)
    cr1, cr2,       \* SPI1 control registers
    cs,             \* level of PA4: "high" (inactive) or "low" (asserted)
    txe,            \* SR.TXE  transmit buffer empty
    rxne,           \* SR.RXNE receive buffer not empty
    dr,             \* the received byte held in DR while rxne
    spi,            \* "idle" | "loaded" (byte in the TX buffer) | "shifting"
    \* --- per execution context
    pc,             \* position in the code
    call,           \* the API call in progress and its arguments
    buf,            \* echo: the caller's buffer
    ops,            \* transaction: the operation list, buffers included
    opsIn,          \* the operation list as it was at entry
    oi, bi,         \* transaction: operation index and byte index of the loops
    sawTxe, sawRxne,\* transfer_byte: the last value the polling loop read
    txLog, rxLog,   \* DR writes / DR reads of this call: <<op, index, byte>>
    txnCount,       \* transactions submitted by this call
    tres,           \* what the transport's transaction returned
    result,         \* what the API call returned
    lastWrite,      \* the harness: the write_reg that has just returned
    csLog           \* the edges of the CS pin made by this call: "fall" / "rise"

hw == <<cr1, cr2, cs, txe, rxne, dr, spi>>
loc == <<pc, call, buf, ops, opsIn, oi, bi, sawTxe, sawRxne, txLog, rxLog,
         txnCount, tres, result, lastWrite, csLog>>
vars == <<cr1, cr2, cs, txe, rxne, dr, spi,
          pc, call, buf, ops, opsIn, oi, bi, sawTxe, sawRxne, txLog, rxLog,
          txnCount, tres, result, lastWrite, csLog>>

\* ------------------------------------------------------------- operations
Write(t) == [kind |-> "Write", rx |-> <<>>, tx |-> t]
Read(r) == [kind |-> "Read", rx |-> r, tx |-> <<>>]
Transfer(r, t) == [kind |-> "Transfer", rx |-> r, tx |-> t]
TransferInPlace(b) == [kind |-> "TransferInPlace", rx |-> b, tx |-> <<>>]
DelayNs == [kind |-> "DelayNs", rx |-> <<>>, tx |-> <<>>]

Min(a, b) == IF a <= b THEN a ELSE b
Zeros(n) == [i \in 1..n |-> 0]

\* Number of iterations of the loop of one match arm.
OpLen(op) ==
    CASE op.kind = "Write" -> Len(op.tx)
      [] op.kind = "Read" -> Len(op.rx)
      [] op.kind = "Transfer" -> Min(Len(op.rx), Len(op.tx))
      [] op.kind = "TransferInPlace" -> Len(op.rx)
      [] OTHER -> 0

\* Mutant: the in-place arm transmits the filler, as the read arm does.
TxByte_inplace_filler(op, i) ==
    CASE op.kind = "Write" -> op.tx[i]
      [] op.kind = "Transfer" -> op.tx[i]
      [] OTHER -> DummyTx

\* The byte handed to transfer_byte in iteration i of the arm.
TxByte(op, i) ==
    CASE op.kind = "Write" -> op.tx[i]
      [] op.kind = "Read" -> DummyTx
      [] op.kind = "Transfer" -> op.tx[i]
      [] op.kind = "TransferInPlace" -> op.rx[i]
      [] OTHER -> DummyTx

\* Mutant: the returned byte is dropped by every arm.
StoreRx_drop(op, i, r) == op

\* What iteration i of the arm does with the byte transfer_byte returned.
StoreRx(op, i, r) ==
    IF op.kind = "Write" THEN op ELSE [op EXCEPT !.rx[i] = r]

\* The first operation at or after index k whose loop has an iteration.
RECURSIVE SeekOp(_, _)
SeekOp(list, k) ==
    IF k > Len(list) THEN k
    ELSE IF OpLen(list[k]) > 0 THEN k ELSE SeekOp(list, k + 1)

\* Mutant: the inner loop ends after its first iteration.
NextSlot_first_only(list, k, i) == <<SeekOp(list, k + 1), 1>>

\* The loops' position after iteration i of operation k: <<op index, byte index>>.
NextSlot(list, k, i) ==
    IF i < OpLen(list[k]) THEN <<k, i + 1>> ELSE <<SeekOp(list, k + 1), 1>>

\* ---------------------------------------------------------------- results
NoResult == [tag |-> "none", val |-> 0, err |-> ""]
Ok(v) == [tag |-> "Ok", val |-> v, err |-> ""]
Err(e) == [tag |-> "Err", val |-> 0, err |-> e]
NoCall == [kind |-> "none", addr |-> 0, value |-> 0, buf |-> <<>>,
           after |-> [valid |-> FALSE, addr |-> 0, value |-> 0]]
NoWrite == [valid |-> FALSE, addr |-> 0, value |-> 0]

\* ------------------------------------------------------------ input sets
Bufs(n) == UNION {[1..k -> Val] : k \in 0..n}
OpsOver(n) ==
    {Write(t) : t \in Bufs(n)}
    \cup {Read(Zeros(k)) : k \in 0..n}
    \cup {Transfer(Zeros(k), t) : k \in 0..n, t \in Bufs(n)}
    \cup {TransferInPlace(t) : t \in Bufs(n)}
    \cup {DelayNs}
\* Operations of at most one byte with a fixed content, for the longer lists.
TinyOps ==
    {Write(<<>>), Write(<<1>>), Read(<<>>), Read(<<0>>),
     Transfer(<<>>, <<1>>), Transfer(<<0>>, <<>>), Transfer(<<0>>, <<1>>),
     TransferInPlace(<<>>), TransferInPlace(<<1>>), DelayNs}
\* The operation lists main() may hand to transaction(): every list of one
\* operation with buffers up to MaxLen, and every list of 2..MaxOps tiny ones.
TxnInputs ==
    {<<>>}
    \cup {<<op>> : op \in OpsOver(MaxLen)}
    \cup UNION {[1..n -> TinyOps] : n \in 2..MaxOps}

\* The buffers main() may hand to echo().
EchoInputs == Bufs(MaxLen)
\* The buffers of the frame-size specification: every length up to MaxWide,
\* filled with one byte value.
WideInputs == {[i \in 1..n |-> v] : n \in 0..MaxWide, v \in Val}

\* ------------------------------------------------------------------- Init
Init ==
    /\ cr1 = 0 /\ cr2 = 0
    /\ cs \in {"low", "high"}
    /\ txe = FALSE /\ rxne = FALSE /\ dr = 0 /\ spi = "idle"
    /\ pc = [c \in Ctx |-> IF c = 1 THEN "boot" ELSE "idle"]
    /\ call = [c \in Ctx |-> NoCall]
    /\ buf = [c \in Ctx |-> <<>>]
    /\ ops = [c \in Ctx |-> <<>>]
    /\ opsIn = [c \in Ctx |-> <<>>]
    /\ oi = [c \in Ctx |-> 0]
    /\ bi = [c \in Ctx |-> 0]
    /\ sawTxe = [c \in Ctx |-> FALSE]
    /\ sawRxne = [c \in Ctx |-> FALSE]
    /\ txLog = [c \in Ctx |-> <<>>]
    /\ rxLog = [c \in Ctx |-> <<>>]
    /\ txnCount = [c \in Ctx |-> 0]
    /\ tres = [c \in Ctx |-> NoResult]
    /\ result = [c \in Ctx |-> NoResult]
    /\ lastWrite = NoWrite
    /\ csLog = [c \in Ctx |-> <<>>]

\* ------------------------------------------------- Stm32Spi1Device: helpers
\* Mutant: cs_low() sets the pin instead of resetting it.
cs_low_set == "high"
\* Mutant: cs_high() resets the pin instead of setting it.
cs_high_reset == "low"
\* The pin level after the BSRR write of cs_low() / cs_high().
cs_low == "low"
cs_high == "high"
\* The edge of the pin when a BSRR write takes it from one level to another.
Edge(from, to) ==
    IF from = to THEN <<>> ELSE IF to = "low" THEN <<"fall">> ELSE <<"rise">>

\* CR1 as init() leaves it: the configuration with SPE set.
Cr1Enabled == CR1_MSTR + CR1_SSM + CR1_SSI + CR1_BR_SLOWEST + CR1_SPE

\* Mutant: transfer_byte without the wait for TXE.
TxeLoopExit_nowait(flag) == TRUE

\* Mutant: the wait for TXE never ends.
TxeLoopExit_never(flag) == FALSE
\* Mutant: transfer_byte without the wait for RXNE.
RxneLoopExit_nowait(flag) == TRUE

\* The exit conditions of the two polling loops of transfer_byte, on the
\* flag just read from SR.
TxeLoopExit(flag) == flag
RxneLoopExit(flag) == flag

Set(f, c, v) == [f EXCEPT ![c] = v]

\* ------------------------------------------------------ Stm32Spi1Device
\* init(): CR1 (SPE clear), CR2, CR1 with SPE, then cs_high().
init ==
    /\ pc[1] = "boot"
    /\ cr1' = Cr1Enabled
    /\ cr2' = CR2_FRXTH
    /\ cs' = cs_high
    /\ pc' = Set(pc, 1, "idle")
    /\ UNCHANGED <<txe, rxne, dr, spi, call, buf, ops, opsIn, oi, bi, sawTxe,
                   sawRxne, txLog, rxLog, txnCount, tres, result, lastWrite, csLog>>

\* transaction(): cs_low(), then the loops start at the first byte there is.
transaction_cs_low(c) ==
    /\ pc[c] = "txn"
    /\ cs' = cs_low
    /\ LET k == SeekOp(ops[c], 1) IN
         IF k > Len(ops[c])
         THEN /\ pc' = Set(pc, c, "cs_high")
              /\ UNCHANGED <<oi, bi>>
         ELSE /\ pc' = Set(pc, c, "wait_txe")
              /\ oi' = Set(oi, c, k)
              /\ bi' = Set(bi, c, 1)
    /\ csLog' = Set(csLog, c, csLog[c] \o Edge(cs, cs_low))
    /\ UNCHANGED <<cr1, cr2, txe, rxne, dr, spi, call, buf, ops, opsIn, sawTxe,
                   sawRxne, txLog, rxLog, txnCount, tres, result, lastWrite>>

\* transfer_byte: one iteration of  while rd(SPI1_SR) & SR_TXE == 0 {}.
transfer_byte_poll_txe(c) ==
    /\ pc[c] = "wait_txe"
    /\ sawTxe' = Set(sawTxe, c, txe)
    /\ pc' = Set(pc, c, IF TxeLoopExit(txe) THEN "wr_dr" ELSE "wait_txe")
    /\ UNCHANGED <<hw, call, buf, ops, opsIn, oi, bi, sawRxne, txLog, rxLog,
                   txnCount, tres, result, lastWrite, csLog>>

\* transfer_byte: wr_byte(SPI1_DR, tx). The byte goes to the TX buffer and
\* the hardware clears TXE.
transfer_byte_write_dr(c) ==
    /\ pc[c] = "wr_dr"
    /\ txLog' = Set(txLog, c,
                    Append(txLog[c], <<oi[c], bi[c], TxByte(ops[c][oi[c]], bi[c])>>))
    /\ txe' = FALSE
    /\ spi' = "loaded"
    /\ sawRxne' = Set(sawRxne, c, FALSE)
    /\ pc' = Set(pc, c, "wait_rxne")
    /\ UNCHANGED <<cr1, cr2, cs, rxne, dr, call, buf, ops, opsIn, oi, bi,
                   sawTxe, rxLog, txnCount, tres, result, lastWrite, csLog>>

\* transfer_byte: one iteration of  while rd(SPI1_SR) & SR_RXNE == 0 {}.
transfer_byte_poll_rxne(c) ==
    /\ pc[c] = "wait_rxne"
    /\ sawRxne' = Set(sawRxne, c, rxne)
    /\ pc' = Set(pc, c, IF RxneLoopExit(rxne) THEN "rd_dr" ELSE "wait_rxne")
    /\ UNCHANGED <<hw, call, buf, ops, opsIn, oi, bi, sawTxe, txLog, rxLog,
                   txnCount, tres, result, lastWrite, csLog>>

\* transfer_byte: rd_byte(SPI1_DR), which clears RXNE; the match arm stores
\* the byte and the loops advance. A read of DR while RXNE is clear returns
\* whatever the register holds: any byte.
transfer_byte_read_dr(c) ==
    /\ pc[c] = "rd_dr"
    /\ \E r \in (IF rxne THEN {dr} ELSE Val) :
         /\ rxLog' = Set(rxLog, c, Append(rxLog[c], <<oi[c], bi[c], r>>))
         /\ ops' = Set(ops, c, [ops[c] EXCEPT ![oi[c]] = StoreRx(@, bi[c], r)])
    /\ rxne' = FALSE
    /\ dr' = 0
    /\ LET ns == NextSlot(ops[c], oi[c], bi[c]) IN
         IF ns[1] > Len(ops[c])
         THEN /\ pc' = Set(pc, c, "cs_high")
              /\ UNCHANGED <<oi, bi>>
         ELSE /\ pc' = Set(pc, c, "wait_txe")
              /\ oi' = Set(oi, c, ns[1])
              /\ bi' = Set(bi, c, ns[2])
    /\ UNCHANGED <<cr1, cr2, cs, txe, spi, call, buf, opsIn, sawTxe, sawRxne,
                   txLog, txnCount, tres, result, lastWrite, csLog>>

\* Mutant: transaction() reports the transport error.
transaction_result_err == Err("Stm32SpiError")

\* What transaction() returns.
transaction_result == Ok(0)

\* transaction(): cs_high() and Ok(()).
transaction_cs_high(c) ==
    /\ pc[c] = "cs_high"
    /\ cs' = cs_high
    /\ tres' = Set(tres, c, transaction_result)
    /\ pc' = Set(pc, c, "txn_ret")
    /\ csLog' = Set(csLog, c, csLog[c] \o Edge(cs, cs_high))
    /\ UNCHANGED <<cr1, cr2, txe, rxne, dr, spi, call, buf, ops, opsIn, oi, bi,
                   sawTxe, sawRxne, txLog, rxLog, txnCount, result, lastWrite>>

\* --------------------------------------------------- the SPI1 controller
\* The TX buffer empties: TXE is set, a loaded byte moves to the shift register.
hw_tx_empty ==
    /\ ~txe
    /\ txe' = TRUE
    /\ spi' = IF spi = "loaded" THEN "shifting" ELSE spi
    /\ UNCHANGED <<cr1, cr2, cs, rxne, dr, loc>>

\* The shift completes: the byte received, any byte, is in DR and RXNE is set.
hw_rx_ready ==
    /\ spi = "shifting"
    /\ \E r \in Val : dr' = r
    /\ rxne' = TRUE
    /\ spi' = "idle"
    /\ UNCHANGED <<cr1, cr2, cs, txe, loc>>

\* ------------------------------------------------------ MockSpiDriver
\* Mutant: echo without the early return.
EchoIsNoop_never(b) == FALSE
\* Mutant: the response read at the payload's own frame positions.
EchoExtract_unshifted(wire, len) == SubSeq(wire, 2, len + 1)
\* echo: the early return on an empty buffer.
EchoIsNoop(b) == Len(b) = 0
\* Mutant: the transferred prefix one byte longer.
EchoXferRange_long(len) == 0..(len + 2)
\* Mutant: slices taken without the bounds check.
SliceOk_unchecked(range, n) == TRUE
\* echo: the index ranges it takes of the scratch frame, as sets of indices:
\* wire[1..=len], wire[..len + 2] and wire[2..len + 2].
EchoCopyRange(len) == 1..len
EchoXferRange(len) == 0..(len + 1)
EchoExtractRange(len) == 2..(len + 1)
\* Indexing an array of n elements with a range: in bounds, or a panic.
SliceOk(range, n) == range \subseteq 0..(n - 1)
\* echo gets past wire[1..=len].copy_from_slice(buf) and &mut wire[..len + 2].
EchoFrameFits(len) ==
    /\ SliceOk(EchoCopyRange(len), WIRE_LEN)
    /\ SliceOk(EchoXferRange(len), WIRE_LEN)
\* Mutant: the payload copied in after the filler.
EchoWire_filler_first(b) == <<Echo, 0>> \o b
\* echo: the used prefix wire[..len + 2] of the scratch frame [0u8; 257]
\* after  wire[0] = Echo  and  wire[1..=len].copy_from_slice(buf).
EchoWire(b) == <<Echo>> \o b \o <<0>>
\* echo: wire[2..len + 2], copied back into the caller's buffer.
EchoExtract(wire, len) == SubSeq(wire, 3, len + 2)
\* Mutant: the value sent before the address.
WriteRegFrame_swapped(addr, value) == <<WriteReg, value, addr>>
\* Mutant: the result taken from the last receive position.
ReadRegValue_last(rx) == rx[3]
\* write_reg / read_reg: the transmitted frames.
WriteRegFrame(addr, value) == <<WriteReg, addr, value>>
ReadRegFrame(addr) == <<ReadReg, addr, 0>>
\* read_reg: Ok(rx[0]).
ReadRegValue(rx) == rx[1]
\* Mutant: the transport's error passed through.
map_err_keep(e) == Err(e)
\* .map_err(|_| Error::Spi)
map_err(e) == Err("Spi")

\* Handing one operation list to the transport's transaction().
Submit(c, list) ==
    /\ ops' = Set(ops, c, list)
    /\ opsIn' = Set(opsIn, c, list)
    /\ txnCount' = Set(txnCount, c, txnCount[c] + 1)
    /\ pc' = Set(pc, c, "txn")

\* echo up to the call of transfer_in_place: the early return, the frame
\* (a slice out of range panics: the panic handler never returns), the
\* transaction of one TransferInPlace.
echo_call(c, b) ==
    /\ pc[c] = "idle"
    /\ ~lastWrite.valid
    /\ call' = Set(call, c, [NoCall EXCEPT !.kind = "echo", !.buf = b])
    /\ buf' = Set(buf, c, b)
    /\ IF EchoIsNoop(b)
       THEN /\ result' = Set(result, c, Ok(0))
            /\ pc' = Set(pc, c, "ret")
            /\ UNCHANGED <<ops, opsIn, txnCount>>
       ELSE IF ~EchoFrameFits(Len(b))
       THEN /\ pc' = Set(pc, c, "panic")
            /\ UNCHANGED <<ops, opsIn, txnCount, result>>
       ELSE /\ Submit(c, <<TransferInPlace(EchoWire(b))>>)
            /\ UNCHANGED result
    /\ UNCHANGED <<hw, oi, bi, sawTxe, sawRxne, txLog, rxLog, tres, lastWrite, csLog>>

echo_return(c) ==
    /\ pc[c] = "txn_ret"
    /\ call[c].kind = "echo"
    /\ IF tres[c].tag = "Err"
       THEN /\ result' = Set(result, c, map_err(tres[c].err))
            /\ UNCHANGED buf
       ELSE /\ buf' = Set(buf, c, EchoExtract(ops[c][1].rx, Len(buf[c])))
            /\ result' = Set(result, c, Ok(0))
    /\ pc' = Set(pc, c, "ret")
    /\ UNCHANGED <<hw, call, ops, opsIn, oi, bi, sawTxe, sawRxne, txLog, rxLog,
                   txnCount, tres, lastWrite, csLog>>

write_reg_call(c, addr, value) ==
    /\ pc[c] = "idle"
    /\ ~lastWrite.valid
    /\ call' = Set(call, c, [NoCall EXCEPT !.kind = "write_reg", !.addr = addr,
                                           !.value = value])
    /\ Submit(c, <<Write(WriteRegFrame(addr, value))>>)
    /\ UNCHANGED <<hw, buf, oi, bi, sawTxe, sawRxne, txLog, rxLog, tres, result,
                   lastWrite, csLog>>

write_reg_return(c) ==
    /\ pc[c] = "txn_ret"
    /\ call[c].kind = "write_reg"
    /\ result' = Set(result, c, IF tres[c].tag = "Err" THEN map_err(tres[c].err)
                                ELSE Ok(0))
    /\ pc' = Set(pc, c, "ret")
    /\ UNCHANGED <<hw, call, buf, ops, opsIn, oi, bi, sawTxe, sawRxne, txLog,
                   rxLog, txnCount, tres, lastWrite, csLog>>

read_reg_call(c, addr) ==
    /\ pc[c] = "idle"
    /\ call' = Set(call, c, [NoCall EXCEPT !.kind = "read_reg", !.addr = addr,
                                           !.after = lastWrite])
    /\ lastWrite' = NoWrite
    /\ Submit(c, <<Transfer(Zeros(3), ReadRegFrame(addr))>>)
    /\ UNCHANGED <<hw, buf, oi, bi, sawTxe, sawRxne, txLog, rxLog, tres, result,
                   csLog>>

read_reg_return(c) ==
    /\ pc[c] = "txn_ret"
    /\ call[c].kind = "read_reg"
    /\ result' = Set(result, c, IF tres[c].tag = "Err" THEN map_err(tres[c].err)
                                ELSE Ok(ReadRegValue(ops[c][1].rx)))
    /\ pc' = Set(pc, c, "ret")
    /\ UNCHANGED <<hw, call, buf, ops, opsIn, oi, bi, sawTxe, sawRxne, txLog,
                   rxLog, txnCount, tres, lastWrite, csLog>>

\* ------------------------------------------------------------ the callers
\* A caller hands an operation list to Stm32Spi1Device::transaction itself
\* (init() has run).
transaction_call(c, list) ==
    /\ pc[c] = "idle"
    /\ cr1 = Cr1Enabled
    /\ ~lastWrite.valid
    /\ call' = Set(call, c, [NoCall EXCEPT !.kind = "transaction"])
    /\ Submit(c, list)
    /\ UNCHANGED <<hw, buf, oi, bi, sawTxe, sawRxne, txLog, rxLog, tres, result,
                   lastWrite, csLog>>

transaction_return(c) ==
    /\ pc[c] = "txn_ret"
    /\ call[c].kind = "transaction"
    /\ result' = Set(result, c, tres[c])
    /\ pc' = Set(pc, c, "ret")
    /\ UNCHANGED <<hw, call, buf, ops, opsIn, oi, bi, sawTxe, sawRxne, txLog,
                   rxLog, txnCount, tres, lastWrite, csLog>>

\* The caller has its result and goes on. After a write_reg that returned Ok
\* the harness either goes on to anything, or notes the write and reads a
\* register next (main.rs, test 1).
resume(c) ==
    /\ pc[c] = "ret"
    /\ pc' = Set(pc, c, "idle")
    /\ lastWrite' \in
         {NoWrite} \cup
         (IF c = 1 /\ call[c].kind = "write_reg" /\ result[c].tag = "Ok"
          THEN {[valid |-> TRUE, addr |-> call[c].addr, value |-> call[c].value]}
          ELSE {})
    /\ call' = Set(call, c, NoCall)
    /\ buf' = Set(buf, c, <<>>)
    /\ ops' = Set(ops, c, <<>>)
    /\ opsIn' = Set(opsIn, c, <<>>)
    /\ oi' = Set(oi, c, 0)
    /\ bi' = Set(bi, c, 0)
    /\ sawTxe' = Set(sawTxe, c, FALSE)
    /\ sawRxne' = Set(sawRxne, c, FALSE)
    /\ txLog' = Set(txLog, c, <<>>)
    /\ rxLog' = Set(rxLog, c, <<>>)
    /\ txnCount' = Set(txnCount, c, 0)
    /\ tres' = Set(tres, c, NoResult)
    /\ result' = Set(result, c, NoResult)
    /\ csLog' = Set(csLog, c, <<>>)
    /\ UNCHANGED hw

\* ------------------------------------------------------- specification
\* One caller, main(), over the STM32 transport.
Next ==
    \/ init
    \/ pc[1] = "idle" /\ \E b \in EchoInputs : echo_call(1, b)
    \/ pc[1] = "idle" /\ \E a \in Val, v \in Val : write_reg_call(1, a, v)
    \/ pc[1] = "idle" /\ \E a \in Val : read_reg_call(1, a)
    \/ pc[1] = "idle" /\ \E l \in TxnInputs : transaction_call(1, l)
    \/ transaction_cs_low(1)
    \/ transfer_byte_poll_txe(1)
    \/ transfer_byte_write_dr(1)
    \/ transfer_byte_poll_rxne(1)
    \/ transfer_byte_read_dr(1)
    \/ transaction_cs_high(1)
    \/ echo_return(1)
    \/ write_reg_return(1)
    \/ read_reg_return(1)
    \/ transaction_return(1)
    \/ resume(1)
    \/ hw_tx_empty
    \/ hw_rx_ready

Spec == Init /\ [][Next]_vars

\* The same program with a CPU that keeps executing a call once it is made
\* and a controller that does set its flags: TXE whenever the TX buffer is
\* not reported empty, RXNE once a byte is being shifted.
Running(c) ==
    \/ transaction_cs_low(c)
    \/ transfer_byte_poll_txe(c)
    \/ transfer_byte_write_dr(c)
    \/ transfer_byte_poll_rxne(c)
    \/ transfer_byte_read_dr(c)
    \/ transaction_cs_high(c)
    \/ echo_return(c)
    \/ write_reg_return(c)
    \/ read_reg_return(c)
    \/ transaction_return(c)

SpecFair ==
    /\ Init /\ [][Next]_vars
    /\ WF_vars(Running(1))
    /\ WF_vars(hw_tx_empty)
    /\ WF_vars(hw_rx_ready)

\* ----------------------------------- two execution contexts, two handles
\* Stm32Spi1Device is a unit struct: a second context (an interrupt handler,
\* a second task) can hold a handle of its own and call transaction() while
\* main() is inside one. Nothing in transaction() excludes the other caller.
ConcInputs == {<<Write(<<1>>)>>, <<Read(<<0>>)>>, <<TransferInPlace(<<1>>)>>}

NextConc ==
    \/ init
    \/ \E c \in Ctx :
         \/ pc[c] = "idle" /\ \E l \in ConcInputs : transaction_call(c, l)
         \/ transaction_cs_low(c)
         \/ transfer_byte_poll_txe(c)
         \/ transfer_byte_write_dr(c)
         \/ transfer_byte_poll_rxne(c)
         \/ transfer_byte_read_dr(c)
         \/ transaction_cs_high(c)
         \/ transaction_return(c)
         \/ resume(c)
    \/ hw_tx_empty
    \/ hw_rx_ready

SpecConc == Init /\ [][NextConc]_vars

\* ------------------------------- MockSpiDriver<SPI> over any SpiDevice
\* The error values a transport may return (embedded_hal::spi::ErrorKind).
TransportErrors == {"Overrun", "ModeFault", "Other"}

\* What a transport may leave in a buffer it may write: any content; for the
\* long frames of the frame-size specification, one byte value throughout or
\* the content moved one position on.
TransportFills(old) ==
    IF Len(old) <= MaxLen + 2
    THEN [1..Len(old) -> Val]
    ELSE {[i \in 1..Len(old) |-> v] : v \in Val}
         \cup {<<0>> \o SubSeq(old, 1, Len(old) - 1)}

\* transaction() of an arbitrary SPI: SpiDevice, as the framing layer sees
\* it: it returns Ok or some error, and has written any bytes to the buffers
\* it may write.
generic_transaction(c) ==
    /\ pc[c] = "txn"
    /\ tres' \in {Set(tres, c, r) : r \in {Ok(0)} \cup {Err(e) : e \in TransportErrors}}
    /\ \E r \in TransportFills(ops[c][1].rx) :
         ops' = Set(ops, c, <<[ops[c][1] EXCEPT !.rx = r]>>)
    /\ pc' = Set(pc, c, "txn_ret")
    /\ UNCHANGED <<hw, call, buf, opsIn, oi, bi, sawTxe, sawRxne, txLog, rxLog,
                   txnCount, result, lastWrite, csLog>>

InitGen ==
    /\ cr1 = 0 /\ cr2 = 0
    /\ cs = "high"
    /\ txe = FALSE /\ rxne = FALSE /\ dr = 0 /\ spi = "idle"
    /\ pc = [c \in Ctx |-> "idle"]
    /\ call = [c \in Ctx |-> NoCall]
    /\ buf = [c \in Ctx |-> <<>>]
    /\ ops = [c \in Ctx |-> <<>>]
    /\ opsIn = [c \in Ctx |-> <<>>]
    /\ oi = [c \in Ctx |-> 0]
    /\ bi = [c \in Ctx |-> 0]
    /\ sawTxe = [c \in Ctx |-> FALSE]
    /\ sawRxne = [c \in Ctx |-> FALSE]
    /\ txLog = [c \in Ctx |-> <<>>]
    /\ rxLog = [c \in Ctx |-> <<>>]
    /\ txnCount = [c \in Ctx |-> 0]
    /\ tres = [c \in Ctx |-> NoResult]
    /\ result = [c \in Ctx |-> NoResult]
    /\ lastWrite = NoWrite
    /\ csLog = [c \in Ctx |-> <<>>]

NextGen ==
    \/ pc[1] = "idle" /\ \E b \in EchoInputs : echo_call(1, b)
    \/ pc[1] = "idle" /\ \E a \in Val, v \in Val : write_reg_call(1, a, v)
    \/ pc[1] = "idle" /\ \E a \in Val : read_reg_call(1, a)
    \/ generic_transaction(1)
    \/ echo_return(1)
    \/ write_reg_return(1)
    \/ read_reg_return(1)
    \/ resume(1)

SpecGen == InitGen /\ [][NextGen]_vars

\* --------------------------- echo with payloads around the frame's size
NextWide ==
    \/ pc[1] = "idle" /\ \E b \in WideInputs : echo_call(1, b)
    \/ generic_transaction(1)
    \/ echo_return(1)
    \/ resume(1)

SpecWide == InitGen /\ [][NextWide]_vars

\* ========================================================== properties
TypeOK ==
    /\ cs \in {"low", "high"}
    /\ txe \in BOOLEAN /\ rxne \in BOOLEAN /\ dr \in Val
    /\ spi \in {"idle", "loaded", "shifting"}
    /\ \A c \in Ctx : pc[c] \in {"boot", "idle", "txn", "wait_txe", "wr_dr",
                                 "wait_rxne", "rd_dr", "cs_high", "txn_ret", "ret",
                                 "panic"}

\* The bytes written to DR / read from DR by the call of context c, in order.
TxBytes(c) == [j \in 1..Len(txLog[c]) |-> txLog[c][j][3]]
RxBytes(c) == [j \in 1..Len(rxLog[c]) |-> rxLog[c][j][3]]
\* The <<operation, index>> slots of those accesses.
WrSlots(c) == [j \in 1..Len(txLog[c]) |-> <<txLog[c][j][1], txLog[c][j][2]>>]
RdSlots(c) == [j \in 1..Len(rxLog[c]) |-> <<rxLog[c][j][1], rxLog[c][j][2]>>]
IsPrefix(s, t) == Len(s) <= Len(t) /\ s = SubSeq(t, 1, Len(s))
\* Context c is inside the byte-exchange part of a transaction.
Exchanging(c) == pc[c] \in {"wait_txe", "wr_dr", "wait_rxne", "rd_dr"}

\* ---------------------------------------------------------------- C1
\* C1: for every call of transaction() made after init(), chip-select is
\* high immediately before the call body runs, low in every state of a byte
\* exchange (from the wait for TXE of the first byte to the DR read of the
\* last), and high when the call has returned; the controller holds or
\* shifts a byte only while chip-select is low.
C1_ChipSelectBrackets ==
    /\ pc[1] = "txn" => cs = "high"
    /\ Exchanging(1) => cs = "low"
    /\ pc[1] \in {"txn_ret", "ret"} => cs = "high"
    /\ (spi # "idle" \/ rxne) => cs = "low"

\* A transaction of at least two byte exchanges has returned.
C1_Witness ==
    /\ pc[1] = "txn_ret"
    /\ call[1].kind = "transaction"
    /\ Len(rxLog[1]) >= 2
    /\ cs = "high"

\* ---------------------------------------------------------------- C2
\* A transport that loops the transmitted bytes back d exchanges later: the
\* byte received in exchange k is the byte transmitted in exchange k - d
\* (the first d received bytes are whatever the line held).
LoopsBack(tx, rx, d) ==
    /\ Len(rx) = Len(tx)
    /\ \A k \in 1..Len(rx) : k > d => rx[k] = tx[k - d]

EchoReturned(c) ==
    /\ pc[c] = "ret"
    /\ call[c].kind = "echo"
    /\ Len(call[c].buf) >= 1

\* C2 as stated: against a transport that loops the transmitted bytes back
\* with a latency of two bytes, echo returns Ok and the caller's buffer holds
\* what it held before the call.
C2_RoundTripLatencyTwo ==
    (EchoReturned(1) /\ LoopsBack(TxBytes(1), RxBytes(1), 2))
        => (result[1] = Ok(0) /\ buf[1] = call[1].buf)

\* C2 as amended: the round trip is the identity against a transport that
\* returns every transmitted byte one exchange later, so that payload byte
\* i, sent at frame position i + 1, comes back at frame position i + 2.
C2_RoundTripLatencyOne ==
    (EchoReturned(1) /\ LoopsBack(TxBytes(1), RxBytes(1), 1))
        => (result[1] = Ok(0) /\ buf[1] = call[1].buf)

\* An echo of two different bytes has come back over the one-exchange
\* loopback.
C2_Witness ==
    /\ EchoReturned(1)
    /\ Len(call[1].buf) >= 2
    /\ call[1].buf[1] # call[1].buf[2]
    /\ LoopsBack(TxBytes(1), RxBytes(1), 1)
    /\ buf[1] = call[1].buf

\* ---------------------------------------------------------------- C3
\* A register-file peripheral selects the register with the address byte of
\* the ReadReg frame, so it can present the register's content from the
\* exchange of the address byte on (frame positions 1 and 2); what it sends
\* during the exchange of the command code does not depend on the address.
RegFileAnswers(rx, v) ==
    /\ Len(rx) = 3
    /\ rx[2] = v
    /\ rx[3] = v

C4_EmptyEchoIsNoop ==
    [][(pc[1] = "idle" /\ call'[1].kind = "echo" /\ Len(call'[1].buf) = 0)
        => ( /\ pc'[1] = "ret"
             /\ result'[1] = Ok(0)
             /\ txnCount'[1] = 0
             /\ txLog' = txLog /\ rxLog' = rxLog
             /\ buf'[1] = <<>>
             /\ UNCHANGED hw )]_vars

\* echo([]) has returned.
C4_Witness ==
    /\ pc[1] = "ret"
    /\ call[1].kind = "echo"
    /\ call[1].buf = <<>>
    /\ result[1] = Ok(0)
    /\ txnCount[1] = 0
    /\ cr1 = Cr1Enabled

\* ---------------------------------------------------------------- C5
\* The bytes an Exchange / ExchangeInPlace operation is given to transmit.
TxInput(op) == IF op.kind = "Transfer" THEN op.tx ELSE op.rx

\* A finished transaction of one Exchange(rx, tx) with |rx| = |tx|, or of one
\* ExchangeInPlace(buf).
FullDuplexDone(c) ==
    /\ pc[c] = "txn_ret"
    /\ Len(opsIn[c]) = 1
    /\ \/ opsIn[c][1].kind = "TransferInPlace"
       \/ /\ opsIn[c][1].kind = "Transfer"
          /\ Len(opsIn[c][1].rx) = Len(opsIn[c][1].tx)

\* C5: Exchange(rx, tx) and ExchangeInPlace(buf) are the same function of
\* the bytes to transmit and the bytes the hardware returns: either one
\* writes exactly the given bytes to DR, in order, and ends with its buffer
\* equal to the sequence of bytes read from DR. So with buf = tx and the same
\* responses they transmit the same bytes and end with rx = buf.
C5_ExchangeVariantsAgree ==
    FullDuplexDone(1)
        => ( /\ TxBytes(1) = TxInput(opsIn[1][1])
             /\ ops[1][1].rx = RxBytes(1) )

\* An ExchangeInPlace of two bytes has finished and the hardware returned
\* something other than what was sent.
C5_Witness ==
    /\ FullDuplexDone(1)
    /\ opsIn[1][1].kind = "TransferInPlace"
    /\ Len(RxBytes(1)) = 2
    /\ RxBytes(1) # TxBytes(1)
    /\ ops[1][1].rx = RxBytes(1)

\* ---------------------------------------------------------------- C6
\* Every <<operation, index>> slot of a list, in list order and, within an
\* operation, in increasing index order.
RECURSIVE ExchSlots(_, _)
ExchSlots(list, k) ==
    IF k > Len(list) THEN <<>>
    ELSE [i \in 1..OpLen(list[k]) |-> <<k, i>>] \o ExchSlots(list, k + 1)

\* C6: the DR writes of a transaction are the slots of its list in list
\* order and index order, the DR reads follow the writes one for one, the
\* write of the next byte happens only when the read of the previous one is
\* done (TXE and RXNE both seen for it), and a transaction that has finished
\* has exchanged every slot.
C6_StrictOrder ==
    /\ IsPrefix(WrSlots(1), ExchSlots(opsIn[1], 1))
    /\ IsPrefix(RdSlots(1), WrSlots(1))
    /\ Len(WrSlots(1)) - Len(RdSlots(1)) \in {0, 1}
    /\ pc[1] = "wr_dr" => (Len(WrSlots(1)) = Len(RdSlots(1)) /\ sawTxe[1])
    /\ pc[1] = "rd_dr" => (Len(WrSlots(1)) = Len(RdSlots(1)) + 1 /\ sawRxne[1])
    /\ pc[1] = "txn_ret" => RdSlots(1) = ExchSlots(opsIn[1], 1)

\* A transaction of two operations with a byte each has finished.
C6_Witness ==
    /\ pc[1] = "txn_ret"
    /\ Len(opsIn[1]) = 2
    /\ RdSlots(1) = <<<<1, 1>>, <<2, 1>>>>

\* ---------------------------------------------------------------- C7
\* C7: transfer_byte is at its DR write only with TXE set and seen set by
\* its polling loop, and at its DR read only with RXNE set and seen set by
\* the polling loop after that write.
C7_FlagsBeforeAccess ==
    /\ pc[1] = "wr_dr" => (txe /\ sawTxe[1])
    /\ pc[1] = "rd_dr" => (rxne /\ sawRxne[1])

\* The second byte of a transaction is about to be read from DR.
C7_Witness ==
    /\ pc[1] = "rd_dr"
    /\ Len(txLog[1]) = 2
    /\ rxne /\ sawRxne[1]

\* ---------------------------------------------------------------- C8
\* Context c is between the chip-select assertion and the chip-select
\* deassertion of its transaction.
Holds(c) == Exchanging(c) \/ pc[c] = "cs_high"

\* C8: no DR access of one transaction happens between the chip-select
\* assertion and deassertion of another transaction, also with two handles
\* in two execution contexts.
C8_NoInterleaving ==
    [][\A c \in Ctx, d \in Ctx :
         (c # d /\ pc[d] \in {"wr_dr", "rd_dr"} /\ pc'[d] # pc[d]) => ~Holds(c)]_vars

\* ---------------------------------------------------------------- C9
\* An API call of the framing layer has returned after its transport's
\* transaction returned an error.
ReturnedAfterError(c) ==
    /\ pc[c] = "ret"
    /\ call[c].kind \in {"echo", "write_reg", "read_reg"}
    /\ tres[c].tag = "Err"

\* C9 as stated: the call returns the transport's error unchanged, having
\* submitted exactly one transaction.
C9_ErrorUnchanged ==
    ReturnedAfterError(1) => (result[1] = tres[1] /\ txnCount[1] = 1)

\* C9 as amended: the call returns Err(Error::Spi) whatever error the
\* transport returned (the transport's error value is dropped), having
\* submitted exactly one transaction, and echo leaves the caller's buffer as
\* it was.
C9_ErrorMappedToSpi ==
    ReturnedAfterError(1)
        => ( /\ result[1] = Err("Spi")
             /\ txnCount[1] = 1
             /\ call[1].kind = "echo" => buf[1] = call[1].buf )

\* echo has returned after its transport failed with Overrun.
C9_Witness ==
    /\ ReturnedAfterError(1)
    /\ call[1].kind = "echo"
    /\ tres[1] = Err("Overrun")
    /\ result[1] = Err("Spi")

\* ---------------------------------------------------------------- C10
\* C10: whenever Stm32Spi1Device::transaction has returned, it has returned
\* Ok(()), for every operation list and whatever the hardware returned; the
\* caller of transaction() gets Ok(()).
C10_TransactionNeverErrs ==
    /\ pc[1] = "txn_ret" => tres[1] = Ok(0)
    /\ (pc[1] = "ret" /\ call[1].kind = "transaction") => result[1] = Ok(0)

\* A transaction() call with byte exchanges has returned to its caller.
C10_Witness ==
    /\ pc[1] = "ret"
    /\ call[1].kind = "transaction"
    /\ Len(rxLog[1]) >= 1
    /\ result[1] = Ok(0)

\* ---------------------------------------------------------------- C11
\* The transaction of context c stays where it is: in the same polling loop
\* with chip-select low, no DR access made and nothing returned.
StaysIn(c, loop) ==
    /\ pc[c] = loop /\ pc'[c] = loop
    /\ cs' = "low"
    /\ txLog' = txLog /\ rxLog' = rxLog
    /\ tres' = tres /\ result' = result

\* C11: a transaction waiting for TXE stays in that wait, with chip-select
\* low and without any DR access or return, in every step that leaves TXE
\* clear, and one waiting for RXNE after its DR write does in every step that
\* leaves RXNE clear: the only way out of either loop is the flag. So while
\* the hardware never sets the flag the transaction never returns, exchanges
\* no further byte and keeps chip-select low; and (second conjunct) forever
\* so when the flag stays clear forever.
C11_NoFlagNoReturn ==
    /\ [][ /\ (pc[1] = "wait_txe" /\ ~txe /\ ~txe') => StaysIn(1, "wait_txe")
           /\ (pc[1] = "wait_rxne" /\ ~rxne /\ ~rxne') => StaysIn(1, "wait_rxne") ]_vars
    /\ []((pc[1] = "wait_txe" /\ [](~txe)) => [](pc[1] = "wait_txe" /\ cs = "low"))
    /\ []((pc[1] = "wait_rxne" /\ [](~rxne)) => [](pc[1] = "wait_rxne" /\ cs = "low"))

\* A transaction is in the wait for RXNE after its second DR write, and the
\* controller has not set the flag.
C11_Witness ==
    /\ pc[1] = "wait_rxne"
    /\ Len(txLog[1]) = 2
    /\ Len(rxLog[1]) = 1
    /\ ~rxne
    /\ cs = "low"

\* ---------------------------------------------------------------- C12
\* C12: for every payload length L in 1..=255 every index echo uses on its
\* 257-byte scratch frame lies within 0..=256 (the payload copy into
\* positions 1..=L, the transferred prefix of L + 2 bytes, the extracted
\* positions 2..L + 2): echo does not panic on a slice, it transfers a frame
\* of L + 2 bytes and returns L bytes.
C12_FrameIndicesInRange ==
    (call[1].kind = "echo" /\ Len(call[1].buf) \in 1..255)
        => LET L == Len(call[1].buf) IN
           /\ EchoCopyRange(L) = 1..L
           /\ EchoCopyRange(L) \subseteq 0..256
           /\ Cardinality(EchoXferRange(L)) = L + 2
           /\ EchoXferRange(L) \subseteq 0..256
           /\ EchoExtractRange(L) = 2..(L + 1)
           /\ EchoExtractRange(L) \subseteq 0..256
           /\ pc[1] # "panic"
           /\ pc[1] \in {"txn", "txn_ret"} => Len(ops[1][1].rx) = L + 2
           /\ (pc[1] = "ret" /\ result[1].tag = "Ok") => Len(buf[1]) = L

\* echo of a 255-byte payload has returned Ok with 255 bytes.
C12_Witness ==
    /\ pc[1] = "ret"
    /\ call[1].kind = "echo"
    /\ Len(call[1].buf) = 255
    /\ result[1] = Ok(0)
    /\ Len(buf[1]) = 255

\* ---------------------------------------------------------------- C13
\* C13: echo with a buffer longer than 255 bytes fails fast: it panics on the
\* slice of the scratch frame that is out of range, before it submits a
\* transaction (no byte exchange, no chip-select edge), without a result and
\* with the caller's buffer as it was; it never goes on with a shortened
\* payload.
C13_OversizeFailsFast ==
    (call[1].kind = "echo" /\ Len(call[1].buf) > 255)
        => /\ pc[1] = "panic"
           /\ txnCount[1] = 0
           /\ ops[1] = <<>>
           /\ txLog[1] = <<>> /\ rxLog[1] = <<>>
           /\ csLog[1] = <<>> /\ cs = "high"
           /\ buf[1] = call[1].buf
           /\ result[1] = NoResult

\* echo of a 256-byte payload (the payload copy fits the frame, the
\* transferred prefix does not) has panicked.
C13_Witness ==
    /\ pc[1] = "panic"
    /\ call[1].kind = "echo"
    /\ Len(call[1].buf) = 256
    /\ buf[1] = call[1].buf
    /\ txnCount[1] = 0

\* ---------------------------------------------------------------- C14
\* echo with a payload of at least one byte has returned Ok.
EchoDone(c) ==
    /\ pc[c] = "ret"
    /\ call[c].kind = "echo"
    /\ Len(call[c].buf) >= 1
    /\ result[c] = Ok(0)

\* The one transaction of echo is a single ExchangeInPlace that transmits
\* exactly the L + 2 bytes [1, payload, 0].
EchoFrameSent(c) ==
    /\ txnCount[c] = 1
    /\ Len(opsIn[c]) = 1
    /\ opsIn[c][1].kind = "TransferInPlace"
    /\ TxBytes(c) = <<1>> \o call[c].buf \o <<0>>
    /\ Len(RxBytes(c)) = Len(call[c].buf) + 2

\* The exchange (counted from 1) in which payload byte j (counted from 1) of
\* that frame is transmitted: the command code goes first.
SentAt(j) == j + 1

\* The byte stored back at index j is the byte received d exchanges after
\* the one in which payload byte j was transmitted.
StoredFrom(c, d) ==
    \A j \in 1..Len(call[c].buf) :
        /\ SentAt(j) + d \in 1..Len(RxBytes(c))
        /\ buf[c][j] = RxBytes(c)[SentAt(j) + d]

\* C14 as stated: echo transmits exactly [1, payload, 0] in one
\* ExchangeInPlace transaction, and the byte stored back at index i is the
\* byte received two positions after the one at which payload byte i was
\* transmitted.
C14_StoredTwoLater ==
    EchoDone(1) => (EchoFrameSent(1) /\ StoredFrom(1, 2))

\* C14 as amended: the frame is as stated, and the byte stored back at index
\* i is the byte received one position after the one at which payload byte i
\* was transmitted (frame position i + 2, the payload byte having gone out
\* at frame position i + 1).
C14_StoredOneLater ==
    EchoDone(1) => (EchoFrameSent(1) /\ StoredFrom(1, 1))

\* An echo of two bytes has returned what it received in the third and
\* fourth exchange, the bytes received differing from one exchange to the
\* next.
C14_Witness ==
    /\ EchoDone(1)
    /\ Len(call[1].buf) = 2
    /\ Len(RxBytes(1)) = 4
    /\ RxBytes(1)[2] # RxBytes(1)[3]
    /\ RxBytes(1)[3] # RxBytes(1)[4]
    /\ buf[1] = <<RxBytes(1)[3], RxBytes(1)[4]>>

\* ---------------------------------------------------------------- C15
\* C15: write_reg(addr, value) submits exactly one transaction holding a
\* single WriteOnly operation whose transmitted bytes are exactly
\* [2, addr, value], in three exchanges, and its outcome (Ok, with the
\* operation's bytes as given) is the same whatever the three bytes
\* received were.
C15_WriteRegFrame ==
    (pc[1] \in {"txn_ret", "ret"} /\ call[1].kind = "write_reg")
        => /\ txnCount[1] = 1
           /\ opsIn[1] = <<Write(<<2, call[1].addr, call[1].value>>)>>
           /\ TxBytes(1) = <<2, call[1].addr, call[1].value>>
           /\ Len(RxBytes(1)) = 3
           /\ ops[1] = opsIn[1]
           /\ tres[1] = Ok(0)
           /\ pc[1] = "ret" => result[1] = Ok(0)

\* write_reg with an address other than the value has returned Ok after the
\* hardware returned three bytes that are not all the same.
C15_Witness ==
    /\ pc[1] = "ret"
    /\ call[1].kind = "write_reg"
    /\ call[1].addr # call[1].value
    /\ Len(RxBytes(1)) = 3
    /\ RxBytes(1)[1] # RxBytes(1)[3]
    /\ result[1] = Ok(0)

\* ---------------------------------------------------------------- C16
\* C16: read_reg(addr) submits exactly one transaction holding a single
\* Exchange operation that transmits exactly [3, addr, 0] into a receive
\* buffer of three bytes, and returns the byte received in receive position
\* 0, the exchange in which the command code goes out, whatever was received
\* in positions 1 and 2.
C16_ReadRegFirstByte ==
    (pc[1] \in {"txn_ret", "ret"} /\ call[1].kind = "read_reg")
        => /\ txnCount[1] = 1
           /\ Len(opsIn[1]) = 1
           /\ opsIn[1][1].kind = "Transfer"
           /\ opsIn[1][1].tx = <<3, call[1].addr, 0>>
           /\ Len(opsIn[1][1].rx) = 3
           /\ TxBytes(1) = <<3, call[1].addr, 0>>
           /\ Len(RxBytes(1)) = 3
           /\ txLog[1][1] = <<1, 1, 3>>
           /\ ops[1][1].rx = RxBytes(1)
           /\ pc[1] = "ret" => result[1] = Ok(RxBytes(1)[1])

\* read_reg has returned the byte of the first exchange, the bytes of the
\* second and third being other bytes.
C16_Witness ==
    /\ pc[1] = "ret"
    /\ call[1].kind = "read_reg"
    /\ Len(RxBytes(1)) = 3
    /\ RxBytes(1)[2] # RxBytes(1)[1]
    /\ RxBytes(1)[3] # RxBytes(1)[1]
    /\ result[1] = Ok(RxBytes(1)[1])

\* ---------------------------------------------------------------- C17
\* A transaction of the single operation Exchange(rx, tx) has finished.
ExchangeDone(c) ==
    /\ pc[c] = "txn_ret"
    /\ Len(opsIn[c]) = 1
    /\ opsIn[c][1].kind = "Transfer"

\* C17: for Exchange(rx, tx), also with rx and tx of different lengths,
\* every index of tx is transmitted, one byte exchange per tx byte, and the
\* byte returned by exchange i is stored in rx[i] whenever i is an index of
\* rx.
C17_ExchangeSendsAllOfTx ==
    ExchangeDone(1)
        => /\ TxBytes(1) = opsIn[1][1].tx
           /\ Len(RxBytes(1)) = Len(opsIn[1][1].tx)
           /\ \A i \in 1..Len(ops[1][1].rx) :
                 i \in 1..Len(RxBytes(1)) => ops[1][1].rx[i] = RxBytes(1)[i]

\* ---------------------------------------------------------------- C18
\* The operation kinds C18 speaks of.
PlainKinds == {"Write", "Read", "TransferInPlace", "DelayNs"}

\* What C18 says an operation of those kinds transmits: the given bytes for
\* WriteOnly, one 0x00 per output slot for ReadOnly, the buffer's contents
\* at entry for ExchangeInPlace, nothing for Delay.
SaidTx(op) ==
    CASE op.kind = "Write" -> op.tx
      [] op.kind = "Read" -> [i \in 1..Len(op.rx) |-> 0]
      [] op.kind = "TransferInPlace" -> op.rx
      [] OTHER -> <<>>

\* The concatenation of SaidTx over the operations k.. of a list.
RECURSIVE SaidTxFrom(_, _)
SaidTxFrom(list, k) ==
    IF k > Len(list) THEN <<>>
    ELSE SaidTx(list[k]) \o SaidTxFrom(list, k + 1)

\* The bytes returned by the exchanges of operation k of the list, in
\* order: those that follow the exchanges of the operations before it.
ReturnedTo(c, k) ==
    LET before == Len(SaidTxFrom(opsIn[c], 1)) - Len(SaidTxFrom(opsIn[c], k))
    IN  SubSeq(RxBytes(c), before + 1, before + Len(SaidTx(opsIn[c][k])))

\* C18: for every finished transaction of WriteOnly, ReadOnly,
\* ExchangeInPlace and Delay operations (Exchange is the subject of C5 and
\* C17), the bytes written to DR are the concatenation, in operation order,
\* of what each operation is said to transmit; ReadOnly and ExchangeInPlace
\* end holding the bytes their exchanges returned, index by index; WriteOnly
\* and Delay end as they were; and no DR access belongs to a Delay.
C18_TxPerOperationKind ==
    ( /\ pc[1] = "txn_ret"
      /\ \A k \in 1..Len(opsIn[1]) : opsIn[1][k].kind \in PlainKinds )
        => /\ TxBytes(1) = SaidTxFrom(opsIn[1], 1)
           /\ Len(RxBytes(1)) = Len(TxBytes(1))
           /\ Len(ops[1]) = Len(opsIn[1])
           /\ \A k \in 1..Len(opsIn[1]) :
                 /\ opsIn[1][k].kind \in {"Read", "TransferInPlace"}
                       => ops[1][k] = [opsIn[1][k] EXCEPT !.rx = ReturnedTo(1, k)]
                 /\ opsIn[1][k].kind \in {"Write", "DelayNs"}
                       => ops[1][k] = opsIn[1][k]
                 /\ opsIn[1][k].kind = "DelayNs"
                       => /\ \A j \in 1..Len(txLog[1]) : txLog[1][j][1] # k
                          /\ \A j \in 1..Len(rxLog[1]) : rxLog[1][j][1] # k

\* The transaction [WriteOnly([1]), ReadOnly(1 slot)] has finished: [1, 0]
\* went out and the ReadOnly slot holds the byte of the second exchange, which
\* is not the filler.
C18_Witness ==
    /\ pc[1] = "txn_ret"
    /\ Len(opsIn[1]) = 2
    /\ opsIn[1][1].kind = "Write"
    /\ opsIn[1][2].kind = "Read"
    /\ TxBytes(1) = <<1, 0>>
    /\ RxBytes(1)[2] # 0
    /\ ops[1][2].rx = <<RxBytes(1)[2]>>

\* ---------------------------------------------------------------- C19
\* C19: with a controller that eventually sets TXE whenever the driver waits
\* for it and RXNE after every DR write, every call that has entered its
\* transaction (transaction() itself, echo of at least one byte, write_reg,
\* read_reg) eventually has its transaction returned Ok and has returned Ok
\* to its caller, with chip-select high.
C19_EventuallyReturns ==
    (pc[1] = "txn")
        ~> ( /\ pc[1] = "ret"
             /\ call[1].kind \in {"transaction", "echo", "write_reg", "read_reg"}
             /\ tres[1] = Ok(0)
             /\ result[1].tag = "Ok"
             /\ cs = "high" )

\* An echo of two bytes has returned after its four exchanges, chip-select
\* high again.
C19_Witness ==
    /\ pc[1] = "ret"
    /\ call[1].kind = "echo"
    /\ Len(call[1].buf) = 2
    /\ Len(rxLog[1]) = 4
    /\ result[1] = Ok(0)
    /\ cs = "high"

\* ---------------------------------------------------------------- C20
\* An operation list with no byte to exchange: empty, or holding only Delay
\* and zero-length operations.
NoBytes(list) ==
    \A k \in 1..Len(list) :
        list[k].kind = "DelayNs" \/ (Len(list[k].rx) = 0 /\ Len(list[k].tx) = 0)

\* C20: a transaction makes no chip-select edge before it starts, exactly
\* one falling edge before its first exchange, none during its exchanges,
\* and exactly one rising edge after the last: completed, it has made one
\* falling edge followed by one rising edge, also when its list has no byte
\* to exchange (then with no DR access at all). So a completed echo of L >= 1
\* bytes, write_reg and read_reg each made one pulse, with L + 2, 3 and 3
\* exchanges inside it.
C20_OnePulsePerTransaction ==
    /\ pc[1] = "txn" => csLog[1] = <<>>
    /\ Holds(1) => csLog[1] = <<"fall">>
    /\ pc[1] = "txn_ret" => csLog[1] = <<"fall", "rise">>
    /\ (pc[1] = "txn_ret" /\ NoBytes(opsIn[1]))
          => (txLog[1] = <<>> /\ rxLog[1] = <<>>)
    /\ (pc[1] = "ret" /\ txnCount[1] > 0)
          => /\ txnCount[1] = 1
             /\ csLog[1] = <<"fall", "rise">>
             /\ Len(txLog[1]) = Len(rxLog[1])
             /\ call[1].kind = "echo" => Len(rxLog[1]) = Len(call[1].buf) + 2
             /\ call[1].kind = "write_reg" => Len(rxLog[1]) = 3
             /\ call[1].kind = "read_reg" => Len(rxLog[1]) = 3

\* The transaction [Delay, ReadOnly(no slot)] has completed: one pulse of
\* chip-select and no DR access.
C20_Witness ==
    /\ pc[1] = "txn_ret"
    /\ opsIn[1] = <<DelayNs, Read(<<>>)>>
    /\ csLog[1] = <<"fall", "rise">>
    /\ txLog[1] = <<>>
    /\ cs = "high"

====
